---- MODULE Spec2Model ----
(***************************************************************************)
(* Model of the MongoDB natural-language agent                             *)
(* (src/mongo_operations_agent.py, src/src/my_mongo_client.py).            *)
(*                                                                         *)
(* Texts (user input, oracle answers) are sequences of one-character       *)
(* strings, so that strip / lower / split / re.sub / json.loads are        *)
(* computed on characters as the code computes them.                       *)
(***************************************************************************)
EXTENDS Integers, Sequences, FiniteSets, TLC

VARIABLES
    pc,            \* position of run(): "input", a graph node, "END", "stopped", "crashed"
    user_input,    \* the line read by input()
    messages,      \* state["messages"]
    mongo_op,      \* state["mongo_op"]
    next_node,     \* state["next_node"], written by router
    store,         \* collection news_hub.topics: _id value -> document
    open_conns,    \* MongoClient objects created and not closed
    output,        \* last line printed by a handler ("" when none)
    op_response,   \* content of the oracle answer read by operation_detection
    raw_response,  \* content of the oracle answer read by the handler
    store_ops,     \* store calls issued in the current turn
    store_pre,     \* store contents when the current turn started
    trace,         \* graph nodes run in the current turn, in order
    error,         \* exception that left graph.invoke ("none" when none)
    turns,         \* number of turns started
    n_pairs,       \* normalizer run: the key/value pairs the input text was written from
    n_text,        \* normalizer run: argument of normalize_llm_json
    n_result,      \* normalizer run: its result
    n_pc           \* normalizer run: "idle", "ready", "done"

vars == <<pc, user_input, messages, mongo_op, next_node, store, open_conns,
          output, op_response, raw_response, store_ops, store_pre, trace,
          error, turns, n_pairs, n_text, n_result, n_pc>>

agent_vars == <<pc, user_input, messages, mongo_op, next_node, store, open_conns,
                output, op_response, raw_response, store_ops, store_pre, trace,
                error, turns>>

norm_vars == <<n_pairs, n_text, n_result, n_pc>>

(***************************************************************************)
(* Bounds                                                                  *)
(***************************************************************************)
MaxTurns == 2
MaxPairs == 2

(***************************************************************************)
(* Characters and words                                                    *)
(***************************************************************************)
DQ == "\""
SQ == "'"
WS == {" "}
Digits == {"0", "1"}

w_insert == <<"i","n","s","e","r","t">>
w_find   == <<"f","i","n","d">>
w_update == <<"u","p","d","a","t","e">>
w_delete == <<"d","e","l","e","t","e">>
w_invalid == <<"i","n","v","a","l","i","d">>
w_exit   == <<"e","x","i","t">>
w_id     == <<"i","d">>
w__id    == <<"_","i","d">>
w_description == <<"d","e","s","c","r","i","p","t","i","o","n">>
None     == <<"None">>

(***************************************************************************)
(* Python str methods                                                      *)
(***************************************************************************)
LowerChar(c) ==
    CASE c = "A" -> "a" [] c = "B" -> "b" [] c = "C" -> "c" [] c = "D" -> "d"
      [] c = "E" -> "e" [] c = "F" -> "f" [] c = "G" -> "g" [] c = "H" -> "h"
      [] c = "I" -> "i" [] c = "J" -> "j" [] c = "K" -> "k" [] c = "L" -> "l"
      [] c = "M" -> "m" [] c = "N" -> "n" [] c = "O" -> "o" [] c = "P" -> "p"
      [] c = "Q" -> "q" [] c = "R" -> "r" [] c = "S" -> "s" [] c = "T" -> "t"
      [] c = "U" -> "u" [] c = "V" -> "v" [] c = "W" -> "w" [] c = "X" -> "x"
      [] c = "Y" -> "y" [] c = "Z" -> "z" [] OTHER -> c

\* str.lower()
Lower(s) == [i \in 1..Len(s) |-> LowerChar(s[i])]

\* str.strip(chars): drop leading and trailing characters that are in cs
Strip(s, cs) ==
    LET keep == {i \in 1..Len(s) : s[i] \notin cs}
    IN  IF keep = {} THEN <<>>
        ELSE LET lo == CHOOSE i \in keep : \A j \in keep : i <= j
                 hi == CHOOSE i \in keep : \A j \in keep : j <= i
             IN  SubSeq(s, lo, hi)

\* index of the first c at or after position i, 0 when there is none
Find(s, c, i) ==
    LET hits == {k \in i..Len(s) : s[k] = c}
    IN  IF hits = {} THEN 0 ELSE CHOOSE k \in hits : \A m \in hits : k <= m

\* c in s
Contains(s, c) == Find(s, c, 1) # 0

\* sub in s, for a non-empty text sub
ContainsText(s, sub) ==
    \E i \in 1..Len(s) : i + Len(sub) - 1 <= Len(s) /\ SubSeq(s, i, i + Len(sub) - 1) = sub

RECURSIVE SplitFrom(_, _, _)
SplitFrom(s, c, i) ==
    LET k == Find(s, c, i)
    IN  IF k = 0 THEN <<SubSeq(s, i, Len(s))>>
        ELSE <<SubSeq(s, i, k - 1)>> \o SplitFrom(s, c, k + 1)

\* str.split(c)
Split(s, c) == SplitFrom(s, c, 1)

\* first position at or after i that holds no whitespace (Len(s)+1 when none)
SkipWs(s, i) ==
    LET stops == {j \in i..Len(s) : s[j] \notin WS}
    IN  IF stops = {} THEN (IF i > Len(s) + 1 THEN i ELSE Len(s) + 1)
        ELSE CHOOSE j \in stops : \A m \in stops : j <= m

(***************************************************************************)
(* re.sub for the three patterns of normalize_llm_json                     *)
(***************************************************************************)
NoMatch == [end |-> 0, rep |-> <<>>]

\* ([{,]\s*)'([^']+)'\s*:   ->   \1"\2":      tried at position i
MatchKey(s, i) ==
    IF s[i] \notin {"{", ","} THEN NoMatch
    ELSE LET j == SkipWs(s, i + 1) IN
         IF j > Len(s) \/ s[j] # SQ THEN NoMatch
         ELSE LET k == Find(s, SQ, j + 1) IN
              IF k = 0 \/ k = j + 1 THEN NoMatch
              ELSE LET c == SkipWs(s, k + 1) IN
                   IF c > Len(s) \/ s[c] # ":" THEN NoMatch
                   ELSE [end |-> c,
                         rep |-> SubSeq(s, i, j - 1) \o <<DQ>> \o SubSeq(s, j + 1, k - 1)
                                 \o <<DQ, ":">>]

\* :\s*'([^']+)'(\s*[},])   ->   : "\1"\2     tried at position i
MatchValue(s, i) ==
    IF s[i] # ":" THEN NoMatch
    ELSE LET j == SkipWs(s, i + 1) IN
         IF j > Len(s) \/ s[j] # SQ THEN NoMatch
         ELSE LET k == Find(s, SQ, j + 1) IN
              IF k = 0 \/ k = j + 1 THEN NoMatch
              ELSE LET c == SkipWs(s, k + 1) IN
                   IF c > Len(s) \/ s[c] \notin {"}", ","} THEN NoMatch
                   ELSE [end |-> c,
                         rep |-> <<":", " ", DQ>> \o SubSeq(s, j + 1, k - 1) \o <<DQ>>
                                 \o SubSeq(s, k + 1, c)]

\* variant of MatchId that never renames
MatchId_m(s, i) == NoMatch

\* "id":   ->   "_id":                        tried at position i
MatchId(s, i) ==
    IF i + 4 <= Len(s) /\ SubSeq(s, i, i + 4) = <<DQ, "i", "d", DQ, ":">>
    THEN [end |-> i + 4, rep |-> <<DQ, "_", "i", "d", DQ, ":">>]
    ELSE NoMatch

\* re.sub: leftmost non-overlapping matches, left to right
RECURSIVE SubKeys(_, _)
SubKeys(s, i) ==
    IF i > Len(s) THEN <<>>
    ELSE LET m == MatchKey(s, i) IN
         IF m.end # 0 THEN m.rep \o SubKeys(s, m.end + 1)
         ELSE <<s[i]>> \o SubKeys(s, i + 1)

RECURSIVE SubValues(_, _)
SubValues(s, i) ==
    IF i > Len(s) THEN <<>>
    ELSE LET m == MatchValue(s, i) IN
         IF m.end # 0 THEN m.rep \o SubValues(s, m.end + 1)
         ELSE <<s[i]>> \o SubValues(s, i + 1)

RECURSIVE SubId(_, _)
SubId(s, i) ==
    IF i > Len(s) THEN <<>>
    ELSE LET m == MatchId(s, i) IN
         IF m.end # 0 THEN m.rep \o SubId(s, m.end + 1)
         ELSE <<s[i]>> \o SubId(s, i + 1)

(***************************************************************************)
(* json.loads over the characters used here: objects, strings, integers.   *)
(* A parsed value is [t, s, m]: t its type, s the text of a string or an   *)
(* integer, m the mapping of an object.                                    *)
(***************************************************************************)
EmptyMap == <<>>
ParseError == [t |-> "ParseError", s |-> <<>>, m |-> EmptyMap]
JStr(x) == [t |-> "str", s |-> x, m |-> EmptyMap]
JInt(x) == [t |-> "int", s |-> x, m |-> EmptyMap]
JObj(f) == [t |-> "dict", s |-> <<>>, m |-> f]
Fail == [ok |-> FALSE, v |-> ParseError, nx |-> 0]

MapSet(f, k, v) == [x \in (DOMAIN f) \cup {k} |-> IF x = k THEN v ELSE f[x]]

ParseString(s, i) ==
    LET k == Find(s, DQ, i + 1)
    IN  IF k = 0 THEN Fail
        ELSE [ok |-> TRUE, v |-> JStr(SubSeq(s, i + 1, k - 1)), nx |-> k + 1]

ParseNumber(s, i) ==
    IF s[i] = "0" THEN [ok |-> TRUE, v |-> JInt(<<"0">>), nx |-> i + 1]
    ELSE LET stops == {j \in i..Len(s) : s[j] \notin Digits}
             e == IF stops = {} THEN Len(s) + 1
                  ELSE CHOOSE j \in stops : \A m \in stops : j <= m
         IN  [ok |-> TRUE, v |-> JInt(SubSeq(s, i, e - 1)), nx |-> e]

RECURSIVE ParseValue(_, _)
RECURSIVE ParseMembers(_, _, _)

ParseObject(s, i) ==
    LET j == SkipWs(s, i + 1)
    IN  IF j > Len(s) THEN Fail
        ELSE IF s[j] = "}" THEN [ok |-> TRUE, v |-> JObj(EmptyMap), nx |-> j + 1]
        ELSE ParseMembers(s, j, EmptyMap)

ParseMembers(s, j, acc) ==
    IF j > Len(s) \/ s[j] # DQ THEN Fail
    ELSE LET key == ParseString(s, j) IN
         IF ~key.ok THEN Fail
         ELSE LET c == SkipWs(s, key.nx) IN
              IF c > Len(s) \/ s[c] # ":" THEN Fail
              ELSE LET val == ParseValue(s, SkipWs(s, c + 1)) IN
                   IF ~val.ok THEN Fail
                   ELSE LET d == SkipWs(s, val.nx)
                            acc2 == MapSet(acc, key.v.s, val.v)
                        IN  IF d > Len(s) THEN Fail
                            ELSE IF s[d] = "," THEN ParseMembers(s, SkipWs(s, d + 1), acc2)
                            ELSE IF s[d] = "}" THEN [ok |-> TRUE, v |-> JObj(acc2), nx |-> d + 1]
                            ELSE Fail

ParseValue(s, i) ==
    IF i > Len(s) THEN Fail
    ELSE IF s[i] = "{" THEN ParseObject(s, i)
    ELSE IF s[i] = DQ THEN ParseString(s, i)
    ELSE IF s[i] \in Digits THEN ParseNumber(s, i)
    ELSE Fail

\* json.loads(s): the parsed value, or ParseError for json.JSONDecodeError
json_loads(s) ==
    LET r == ParseValue(s, SkipWs(s, 1))
    IN  IF r.ok /\ SkipWs(s, r.nx) = Len(s) + 1 THEN r.v ELSE ParseError

\* MongoAgent.normalize_llm_json
normalize_llm_json(s) ==
    LET s0 == Strip(Strip(Strip(s, WS), {DQ}), {SQ})
        s1 == SubKeys(s0, 1)
        s2 == SubValues(s1, 1)
        s3 == SubId(s2, 1)
    IN  json_loads(s3)

(***************************************************************************)
(* Python truth value and membership of a parsed value                     *)
(***************************************************************************)
\* bool(v)
Truthy(v) ==
    CASE v.t = "dict" -> DOMAIN v.m # {}
      [] v.t = "str"  -> v.s # <<>>
      [] v.t = "int"  -> v.s # <<"0">>
      [] OTHER        -> FALSE

\* k in v, for a dict (key) or a str (substring); an int raises TypeError
HasKey(v, k) ==
    CASE v.t = "dict" -> k \in DOMAIN v.m
      [] v.t = "str"  -> ContainsText(v.s, k)
      [] OTHER        -> FALSE

(***************************************************************************)
(* The document store: pymongo calls on the collection news_hub.topics.    *)
(* store maps the _id value of each document to its fields. fail is a      *)
(* failure of the store call itself (connectivity, server error).          *)
(***************************************************************************)
ObjectId == JStr(<<"ObjectId">>)
Removed(st, id) == [x \in (DOMAIN st) \ {id} |-> st[x]]

\* collection.insert_one(doc)
insert_one(st, doc, fail) ==
    IF fail \/ doc.t # "dict" THEN [raised |-> TRUE, store |-> st]
    ELSE LET id == IF w__id \in DOMAIN doc.m THEN doc.m[w__id] ELSE ObjectId
         IN  IF id \in DOMAIN st THEN [raised |-> TRUE, store |-> st]
             ELSE [raised |-> FALSE, store |-> MapSet(st, id, MapSet(doc.m, w__id, id))]

\* collection.update_one({"_id": id}, {"$set": {"description": desc}})
update_one(st, id, desc, fail) ==
    IF fail THEN [raised |-> TRUE, store |-> st, matched_count |-> 0]
    ELSE IF id \in DOMAIN st
         THEN [raised |-> FALSE, matched_count |-> 1,
               store |-> MapSet(st, id, MapSet(st[id], w_description, desc))]
         ELSE [raised |-> FALSE, matched_count |-> 0, store |-> st]

\* collection.delete_one({"_id": id})
delete_one(st, id, fail) ==
    IF fail THEN [raised |-> TRUE, store |-> st, deleted_count |-> 0]
    ELSE IF id \in DOMAIN st
         THEN [raised |-> FALSE, deleted_count |-> 1, store |-> Removed(st, id)]
         ELSE [raised |-> FALSE, deleted_count |-> 0, store |-> st]

\* the _id values of the documents that a filter mapping selects
Matches(st, flt) ==
    {id \in DOMAIN st : \A k \in DOMAIN flt : k \in DOMAIN st[id] /\ st[id][k] = flt[k]}

Zero == JInt(<<"0">>)

\* a projection mapping that mixes inclusion and exclusion is refused by the server
MixedProjection(proj) ==
    /\ \E k \in DOMAIN proj : proj[k] # Zero
    /\ \E k \in (DOMAIN proj) \ {w__id} : proj[k] = Zero

\* the fields of doc that a projection mapping returns
Project(doc, proj) ==
    LET keep == IF \E k \in DOMAIN proj : proj[k] # Zero
                THEN {k \in DOMAIN doc :
                        \/ k \in DOMAIN proj /\ proj[k] # Zero
                        \/ k = w__id /\ k \notin DOMAIN proj}
                ELSE {k \in DOMAIN doc : k \notin DOMAIN proj}
    IN  [k \in keep |-> doc[k]]

\* collection.find_one(filter=flt, projection=proj); pick is the document the
\* server returns first among those selected (NoDoc when none is selected)
NoDoc == JStr(<<"NoDoc">>)
FindChoices(st, flt) ==
    IF flt.t = "dict" /\ Matches(st, flt.m) # {} THEN Matches(st, flt.m) ELSE {NoDoc}

\* variant of find_one that removes the document it returns
find_one_m(st, flt, proj, fail, pick) ==
    IF fail \/ flt.t # "dict" \/ proj.t # "dict" THEN [raised |-> TRUE, store |-> st, found |-> FALSE]
    ELSE IF MixedProjection(proj.m) THEN [raised |-> TRUE, store |-> st, found |-> FALSE]
    ELSE IF pick = NoDoc THEN [raised |-> FALSE, store |-> st, found |-> FALSE]
    ELSE [raised |-> FALSE, store |-> Removed(st, pick),
          found |-> DOMAIN Project(st[pick], proj.m) # {}]

find_one(st, flt, proj, fail, pick) ==
    IF fail \/ flt.t # "dict" \/ proj.t # "dict" THEN [raised |-> TRUE, store |-> st, found |-> FALSE]
    ELSE IF MixedProjection(proj.m) THEN [raised |-> TRUE, store |-> st, found |-> FALSE]
    ELSE IF pick = NoDoc THEN [raised |-> FALSE, store |-> st, found |-> FALSE]
    ELSE [raised |-> FALSE, store |-> st,
          found |-> DOMAIN Project(st[pick], proj.m) # {}]

\* with MyMongoClient() as client: the client is created, the block runs, and
\* mongo_client.close() follows the yield
MyMongoClient(conns, raised) ==
    LET opened == conns + 1
    IN  IF raised THEN opened ELSE opened - 1

(***************************************************************************)
(* Normalizer runs: normalize_llm_json applied to single-level object      *)
(* texts written with single-quoted keys and single-quoted string values.  *)
(***************************************************************************)
NormKeys == {w_id, w__id, w_description, <<":", "k">>, <<>>}
NormVals == {<<"a">>, <<"b", ",">>, <<"b", DQ>>, <<>>}
NormPairs == NormKeys \X NormVals
PairSeqs == UNION {[1..n -> NormPairs] : n \in 0..MaxPairs}

Quoted(x) == <<SQ>> \o x \o <<SQ>>

RECURSIVE MembersText(_, _)
MembersText(pairs, i) ==
    IF i > Len(pairs) THEN <<>>
    ELSE (IF i > 1 THEN <<",", " ">> ELSE <<>>)
         \o Quoted(pairs[i][1]) \o <<":", " ">> \o Quoted(pairs[i][2])
         \o MembersText(pairs, i + 1)

\* the object text {'k1': 'v1', 'k2': 'v2'} of a sequence of pairs
ObjText(pairs) == <<"{">> \o MembersText(pairs, 1) \o <<"}">>

InitAgentIdle ==
    /\ pc = "input"
    /\ user_input = <<>>
    /\ messages = <<>>
    /\ mongo_op = None
    /\ next_node = None
    /\ store = EmptyMap
    /\ open_conns = 0
    /\ output = ""
    /\ op_response = <<>>
    /\ raw_response = <<>>
    /\ store_ops = 0
    /\ store_pre = EmptyMap
    /\ trace = <<>>
    /\ error = "none"
    /\ turns = 0

InitNorm ==
    /\ InitAgentIdle
    /\ n_pairs \in PairSeqs
    /\ n_text = ObjText(n_pairs)
    /\ n_result = None
    /\ n_pc = "ready"

Normalize ==
    /\ n_pc = "ready"
    /\ n_result' = normalize_llm_json(n_text)
    /\ n_pc' = "done"
    /\ UNCHANGED <<n_pairs, n_text>>
    /\ UNCHANGED agent_vars

NextNorm == Normalize

SpecNorm == InitNorm /\ [][NextNorm]_vars

(***************************************************************************)
(* The agent: run() and the nodes of the graph built by create_graph()     *)
(***************************************************************************)
supported_operations == {w_find, w_insert, w_update, w_delete}

\* lines typed by the user
UserInputs ==
    { w_exit, <<"E","X","I","T">>, <<"E","x","i","t">>, <<"a">>, <<"e","x","i","t"," ">> }

\* contents the oracle returns to operation_detection
ClassifierAnswers ==
    { w_insert, w_find, w_update, w_delete,
      <<"I","n","s","e","r","t">>, <<"D","E","L","E","T","E">>,
      <<" ">> \o w_find \o <<" ">>,
      <<"N","o","n","e">>, <<"n","o","n","e">> }

id_a == <<<<w__id, <<"a">>>>>>
Bar == <<" ", "|", " ">>

\* contents the oracle returns to a handler
HandlerAnswers ==
    { ObjText(<<>>),
      ObjText(id_a),
      ObjText(<<<<w__id, <<"a">>>>, <<w_description, <<"b">>>>>>),
      ObjText(<<<<w_id, <<"a">>>>>>),
      ObjText(<<<<w__id, <<"a">>>>, <<w_description, <<>>>>>>),
      ObjText(<<<<w__id, <<"a">>>>, <<<<"x">>, <<"b">>>>>>),
      ObjText(<<<<w_description, <<"b">>>>>>),
      <<" ", DQ>> \o ObjText(<<<<w__id, <<"c">>>>>>) \o <<DQ, " ">>,
      ObjText(id_a) \o Bar \o ObjText(<<<<w__id, <<"c">>>>>>),
      ObjText(<<<<w__id, <<"a", "|", "c">>>>>>),
      ObjText(id_a) \o Bar \o <<"{">> \o Quoted(w__id) \o <<":", " ", "0", "}">>,
      ObjText(<<>>) \o Bar \o <<"{">> \o Quoted(w_description) \o <<":", " ", "1", "}">>,
      ObjText(<<>>) \o Bar \o ObjText(<<>>) \o Bar \o ObjText(<<>>),
      <<"1">> }

MsgMultipleInsert == "Multiple documents detected. Please insert one document at a time."
MsgMultipleDelete == "Multiple documents detected. Please delete one document at a time."
MsgInvalid == "Invalid operation. Supported operations are: ['find', 'insert', 'update', 'delete']"

Init ==
    /\ InitAgentIdle
    /\ n_pairs = <<>>
    /\ n_text = <<>>
    /\ n_result = None
    /\ n_pc = "idle"

\* variant of is_exit that compares without lower()
is_exit_m(line) == line = w_exit

\* user_input.lower()=="exit"
is_exit(line) == Lower(line) = w_exit

\* run(): input(), the exit test, the append to state["messages"], graph.invoke
run_input ==
    /\ pc = "input"
    /\ \E line \in UserInputs :
        /\ is_exit(line) \/ turns < MaxTurns
        /\ user_input' = line
        /\ IF is_exit(line)
           THEN /\ pc' = "stopped"
                /\ UNCHANGED <<messages, turns>>
           ELSE /\ pc' = "operation_detection"
                /\ messages' = Append(messages, [role |-> "user", content |-> line])
                /\ turns' = turns + 1
    /\ UNCHANGED <<mongo_op, next_node, store, open_conns, output, op_response,
                   raw_response, store_ops, store_pre, trace, error>>
    /\ UNCHANGED norm_vars

\* the value operation_detection returns for mongo_op
detected_op(content) ==
    IF Strip(content, WS) \in supported_operations
    THEN Lower(Strip(content, WS))
    ELSE w_invalid

operation_detection ==
    /\ pc = "operation_detection"
    /\ \E content \in ClassifierAnswers :
        /\ op_response' = content
        /\ mongo_op' = detected_op(content)
    /\ trace' = Append(trace, "operation_detection")
    /\ pc' = "router"
    /\ UNCHANGED <<user_input, messages, next_node, store, open_conns, output,
                   raw_response, store_ops, store_pre, error, turns>>
    /\ UNCHANGED norm_vars

\* variant of router_next_node with the find and delete arms exchanged
router_next_node_m(operation) ==
    CASE operation = w_insert -> "mongo_insert"
      [] operation = w_find   -> "mongo_delete"
      [] operation = w_update -> "mongo_update"
      [] operation = w_delete -> "mongo_find"
      [] OTHER                -> "invalid_operation"

\* the value router returns for next_node
router_next_node(operation) ==
    CASE operation = w_insert -> "mongo_insert"
      [] operation = w_find   -> "mongo_find"
      [] operation = w_update -> "mongo_update"
      [] operation = w_delete -> "mongo_delete"
      [] OTHER                -> "invalid_operation"

HandlerNodes ==
    {"mongo_insert", "mongo_find", "mongo_update", "mongo_delete", "invalid_operation"}

\* path_map of the conditional edges leaving router
path_map == [n \in HandlerNodes |-> n]

\* the node and the conditional edge that follows it; the oracle answer that
\* operation_detection held is gone once that node has returned
router ==
    /\ pc = "router"
    /\ next_node' = router_next_node(mongo_op)
    /\ pc' = path_map[next_node']
    /\ trace' = Append(trace, "router")
    /\ op_response' = <<>>
    /\ UNCHANGED <<user_input, messages, mongo_op, store, open_conns, output,
                   raw_response, store_ops, store_pre, error, turns>>
    /\ UNCHANGED norm_vars

\* a handler returns and its edge leads to END
Return(node, printed, st, conns, ops, msgs) ==
    /\ pc' = "END"
    /\ trace' = Append(trace, node)
    /\ output' = printed
    /\ store' = st
    /\ open_conns' = conns
    /\ store_ops' = store_ops + ops
    /\ messages' = messages \o [i \in 1..Len(msgs) |-> [role |-> "human", content |-> msgs[i]]]
    /\ UNCHANGED error

\* an exception leaves the handler, graph.invoke and run()
Raise(node, exc, conns, ops) ==
    /\ pc' = "crashed"
    /\ trace' = Append(trace, node)
    /\ error' = exc
    /\ open_conns' = conns
    /\ store_ops' = store_ops + ops
    /\ UNCHANGED <<output, store, messages>>

\* '_id' in parsed raises TypeError when parsed is a non-zero int
MembershipRaises(parsed) == Truthy(parsed) /\ parsed.t = "int"

\* variant of insert_multiple that tolerates two segments
insert_multiple_m(raw) == Len(Split(raw, "|")) > 2

insert_multiple(raw) == Len(Split(raw, "|")) > 1
update_multiple(raw) == Len(Split(raw, "|")) > 1
delete_multiple(raw) == Len(Split(raw, "|")) > 1

\* variant of insert_valid without the '_id' test
insert_valid_m(parsed) == Truthy(parsed)

insert_valid(parsed) == Truthy(parsed) /\ HasKey(parsed, w__id)
update_valid(parsed) ==
    Truthy(parsed) /\ HasKey(parsed, w__id) /\ HasKey(parsed, w_description)
delete_valid(parsed) == Truthy(parsed) /\ HasKey(parsed, w__id)

mongo_insert ==
    /\ pc = "mongo_insert"
    /\ \E raw \in HandlerAnswers, fail \in BOOLEAN :
        /\ raw_response' = raw
        /\ IF insert_multiple(raw)
           THEN Return("mongo_insert", MsgMultipleInsert, store, open_conns, 0,
                       <<MsgMultipleInsert>>)
           ELSE LET parsed_document == normalize_llm_json(Strip(raw, WS)) IN
                IF parsed_document.t = "ParseError"
                THEN Raise("mongo_insert", "JSONDecodeError", open_conns, 0)
                ELSE IF MembershipRaises(parsed_document)
                THEN Raise("mongo_insert", "TypeError", open_conns, 0)
                ELSE IF insert_valid(parsed_document)
                THEN LET r == insert_one(store, parsed_document, fail) IN
                     IF r.raised
                     THEN Return("mongo_insert", "Error inserting document", store,
                                 MyMongoClient(open_conns, TRUE), 1, <<>>)
                     ELSE Return("mongo_insert", "Inserted document with ID", r.store,
                                 MyMongoClient(open_conns, FALSE), 1, <<>>)
                ELSE Return("mongo_insert", "Could not determine a valid ID to insert.",
                            store, open_conns, 0, <<>>)
    /\ UNCHANGED <<user_input, mongo_op, next_node, op_response, store_pre, turns>>
    /\ UNCHANGED norm_vars

mongo_update ==
    /\ pc = "mongo_update"
    /\ \E raw \in HandlerAnswers, fail \in BOOLEAN :
        /\ raw_response' = raw
        /\ IF update_multiple(raw)
           THEN Return("mongo_update", MsgMultipleInsert, store, open_conns, 0,
                       <<MsgMultipleDelete>>)
           ELSE LET parsed_query == normalize_llm_json(Strip(raw, WS)) IN
                IF parsed_query.t = "ParseError"
                THEN Raise("mongo_update", "JSONDecodeError", open_conns, 0)
                ELSE IF MembershipRaises(parsed_query)
                THEN Raise("mongo_update", "TypeError", open_conns, 0)
                ELSE IF update_valid(parsed_query)
                THEN IF parsed_query.t # "dict"
                     THEN Raise("mongo_update", "TypeError",
                                MyMongoClient(open_conns, TRUE), 0)
                     ELSE LET r == update_one(store, parsed_query.m[w__id],
                                              parsed_query.m[w_description], fail) IN
                          IF r.raised
                          THEN Raise("mongo_update", "StoreOperationError",
                                     MyMongoClient(open_conns, TRUE), 1)
                          ELSE Return("mongo_update",
                                      IF r.matched_count > 0
                                      THEN "Successfully updated description for document with ID"
                                      ELSE "No document found with ID",
                                      r.store, MyMongoClient(open_conns, FALSE), 1, <<>>)
                ELSE Return("mongo_update", "Could not determine both ID and new description.",
                            store, open_conns, 0, <<>>)
    /\ UNCHANGED <<user_input, mongo_op, next_node, op_response, store_pre, turns>>
    /\ UNCHANGED norm_vars

mongo_delete ==
    /\ pc = "mongo_delete"
    /\ \E raw \in HandlerAnswers, fail \in BOOLEAN :
        /\ raw_response' = raw
        /\ IF delete_multiple(raw)
           THEN Return("mongo_delete", MsgMultipleInsert, store, open_conns, 0,
                       <<MsgMultipleDelete>>)
           ELSE LET parsed_query == normalize_llm_json(Strip(raw, WS)) IN
                IF parsed_query.t = "ParseError"
                THEN Raise("mongo_delete", "JSONDecodeError", open_conns, 0)
                ELSE IF MembershipRaises(parsed_query)
                THEN Raise("mongo_delete", "TypeError", open_conns, 0)
                ELSE IF delete_valid(parsed_query)
                THEN IF parsed_query.t # "dict"
                     THEN Return("mongo_delete", "Error deleting document", store,
                                 MyMongoClient(open_conns, TRUE), 0, <<>>)
                     ELSE LET r == delete_one(store, parsed_query.m[w__id], fail) IN
                          IF r.raised
                          THEN Return("mongo_delete", "Error deleting document", store,
                                      MyMongoClient(open_conns, TRUE), 1, <<>>)
                          ELSE Return("mongo_delete",
                                      IF r.deleted_count > 0
                                      THEN "Successfully deleted document with ID"
                                      ELSE "No document found with ID",
                                      r.store, MyMongoClient(open_conns, FALSE), 1, <<>>)
                ELSE Return("mongo_delete", "Could not determine a valid ID to delete.",
                            store, open_conns, 0, <<>>)
    /\ UNCHANGED <<user_input, mongo_op, next_node, op_response, store_pre, turns>>
    /\ UNCHANGED norm_vars

mongo_find ==
    /\ pc = "mongo_find"
    /\ \E raw \in HandlerAnswers, fail \in BOOLEAN :
        /\ raw_response' = raw
        /\ LET parts == IF Contains(raw, "|") THEN Split(raw, "|")
                        ELSE <<raw, <<"{", "}">>>>
           IN
           IF Len(parts) # 2
           THEN Raise("mongo_find", "ValueError", open_conns, 0)
           ELSE LET parsed_mongo_filter == normalize_llm_json(Strip(parts[1], WS))
                    projection == normalize_llm_json(Strip(parts[2], WS))
                IN
                IF parsed_mongo_filter.t = "ParseError" \/ projection.t = "ParseError"
                THEN Raise("mongo_find", "JSONDecodeError", open_conns, 0)
                ELSE \E pick \in FindChoices(store, parsed_mongo_filter) :
                       LET r == find_one(store, parsed_mongo_filter, projection, fail, pick) IN
                       IF r.raised
                       THEN Raise("mongo_find", "StoreOperationError",
                                  MyMongoClient(open_conns, TRUE), 1)
                       ELSE Return("mongo_find",
                                   IF r.found THEN "Document retrieved with filter"
                                   ELSE "No document matched the query.",
                                   r.store, MyMongoClient(open_conns, FALSE), 1, <<>>)
    /\ UNCHANGED <<user_input, mongo_op, next_node, op_response, store_pre, turns>>
    /\ UNCHANGED norm_vars

invalid_operation ==
    /\ pc = "invalid_operation"
    /\ Return("invalid_operation", "", store, open_conns, 0, <<MsgInvalid>>)
    /\ UNCHANGED <<user_input, mongo_op, next_node, op_response, raw_response,
                   store_pre, turns>>
    /\ UNCHANGED norm_vars

\* graph.invoke returns: run() takes the new state and loops back to input()
run_invoke_return ==
    /\ pc = "END"
    /\ pc' = "input"
    /\ trace' = <<>>
    /\ raw_response' = <<>>
    /\ output' = ""
    /\ store_ops' = 0
    /\ store_pre' = store
    /\ UNCHANGED <<user_input, messages, mongo_op, next_node, store, open_conns,
                   op_response, error, turns>>
    /\ UNCHANGED norm_vars

Next ==
    \/ run_input
    \/ operation_detection
    \/ router
    \/ mongo_insert
    \/ mongo_find
    \/ mongo_update
    \/ mongo_delete
    \/ invalid_operation
    \/ run_invoke_return

Spec == Init /\ [][Next]_vars

(***************************************************************************)
(* Properties                                                              *)
(***************************************************************************)
TurnOver == pc \in {"END", "crashed"} /\ Len(trace) = 3
Handler == trace[3]
WritingHandlers == {"mongo_insert", "mongo_update", "mongo_delete"}

\* C1: operation_detection sets mongo_op to the lowercase name whenever the
\* trimmed oracle answer is a supported name in any letter case, and to
\* 'invalid' for every other answer.
C1_CaseInsensitiveDetection ==
    pc = "router" =>
        LET name == Lower(Strip(op_response, WS))
        IN  mongo_op = IF name \in {w_insert, w_find, w_update, w_delete}
                       THEN name ELSE w_invalid

\* C2: when the oracle answer read by the insert, update or delete handler
\* contains '|', the handler returns through the multiple-documents
\* rejection, issues no store call, and the store is as it was when the
\* turn started.
C2_MultiDocumentRejected ==
    (TurnOver /\ Handler \in WritingHandlers /\ Contains(raw_response, "|")) =>
        /\ pc = "END"
        /\ output = MsgMultipleInsert
        /\ store_ops = 0
        /\ store = store_pre

C2_Witness ==
    /\ pc = "END" /\ Len(trace) = 3 /\ trace[3] = "mongo_insert"
    /\ raw_response = ObjText(<<<<w__id, <<"a", "|", "c">>>>>>)
    /\ output = MsgMultipleInsert
    /\ DOMAIN store # {}

\* C3: no ParseError, ValidationError, MultiDocumentError or
\* StoreOperationError leaves a handler: run() never stops on an exception.
C3_NoErrorLeavesHandler == pc # "crashed" /\ error = "none"

\* C4: every connection a handler opened through MyMongoClient is closed
\* when its with-block is left, whether the store call returned or raised.
C4_ConnectionsClosed == open_conns = 0

\* C5: every document in the store has no field other than '_id' and
\* 'description'.
C5_OnlyIdAndDescription ==
    \A id \in DOMAIN store : DOMAIN store[id] \subseteq {w__id, w_description}

\* C6: router selects the handler named after the classified operation, and
\* invalid_operation for every other value of mongo_op; the handler that
\* runs next is the one router selected.
C6_RouterDispatch ==
    /\ Len(trace) >= 2 =>
         /\ mongo_op = w_insert => next_node = "mongo_insert"
         /\ mongo_op = w_find   => next_node = "mongo_find"
         /\ mongo_op = w_update => next_node = "mongo_update"
         /\ mongo_op = w_delete => next_node = "mongo_delete"
         /\ mongo_op \notin {w_insert, w_find, w_update, w_delete}
                => next_node = "invalid_operation"
    /\ Len(trace) = 2 => pc = next_node
    /\ Len(trace) >= 3 => trace[3] = next_node

C6_Witness ==
    /\ pc = "END"
    /\ trace = <<"operation_detection", "router", "mongo_delete">>
    /\ mongo_op = w_delete

\* the fields the claim requires of the normalized extraction result
HasRequiredFields(node, parsed) ==
    /\ parsed.t = "dict"
    /\ w__id \in DOMAIN parsed.m
    /\ node = "mongo_update" => w_description \in DOMAIN parsed.m

\* C7: when the normalized extraction result is empty or lacks '_id'
\* (insert, delete), or lacks '_id' or 'description' (update), the handler
\* issues no store call and the store is unchanged.
C7_MissingFieldNoStoreCall ==
    (TurnOver /\ Handler \in WritingHandlers /\ ~Contains(raw_response, "|")) =>
        LET parsed == normalize_llm_json(Strip(raw_response, WS))
        IN  ~HasRequiredFields(Handler, parsed) => store_ops = 0 /\ store = store_pre

C7_Witness ==
    /\ pc = "END" /\ Len(trace) = 3 /\ trace[3] = "mongo_update"
    /\ raw_response = ObjText(id_a)
    /\ JStr(<<"a">>) \in DOMAIN store
    /\ output = "Could not determine both ID and new description."

\* C8: a turn handled by mongo_find or invalid_operation leaves the store as
\* it was; mongo_find issues at most one store call, invalid_operation none.
C8_NonWritingTurns ==
    (TurnOver /\ Handler \in {"mongo_find", "invalid_operation"}) =>
        /\ store = store_pre
        /\ store_ops <= 1
        /\ Handler = "invalid_operation" => store_ops = 0

C8_Witness ==
    /\ pc = "END" /\ Len(trace) = 3 /\ trace[3] = "mongo_find"
    /\ output = "Document retrieved with filter"
    /\ store_ops = 1

TurnEdges ==
    {<<"input", "operation_detection">>, <<"input", "stopped">>,
     <<"operation_detection", "router">>, <<"END", "input">>}
    \cup ({"router"} \X HandlerNodes)
    \cup (HandlerNodes \X {"END", "crashed"})

\* C9: in a turn the classifier, the router and one handler run in that
\* order and the graph ends before the next input is read; when the line
\* read is 'exit' in any letter case the loop stops and no node or store
\* call runs.
C9_TurnOrdering ==
    /\ [](/\ Len(trace) <= 3
          /\ Len(trace) >= 1 => trace[1] = "operation_detection"
          /\ Len(trace) >= 2 => trace[2] = "router"
          /\ Len(trace) >= 3 => trace[3] \in HandlerNodes
          /\ pc = "END" => Len(trace) = 3
          /\ pc \in {"input", "operation_detection", "stopped"} => trace = <<>>
          /\ Lower(user_input) = w_exit => pc = "stopped" /\ store_ops = 0)
    /\ [][/\ pc' # pc => <<pc, pc'>> \in TurnEdges
          /\ trace' # trace => \/ trace' = <<>> /\ pc = "END"
                               \/ trace' = Append(trace, pc)
          /\ store' # store => pc \in HandlerNodes
          /\ pc = "stopped" => UNCHANGED agent_vars]_vars

C9_Witness ==
    /\ pc = "stopped"
    /\ user_input = <<"E", "x", "i", "t">>
    /\ turns = 1
    /\ DOMAIN store # {}

\* the key normalize_llm_json gives to a key of the text
Renamed(k) == IF k = w_id THEN w__id ELSE k

RECURSIVE ExpectedFrom(_, _, _)
ExpectedFrom(pairs, i, acc) ==
    IF i > Len(pairs) THEN acc
    ELSE ExpectedFrom(pairs, i + 1, MapSet(acc, Renamed(pairs[i][1]), JStr(pairs[i][2])))

\* the mapping with the keys and values of pairs, 'id' renamed to '_id'
Expected(pairs) == ExpectedFrom(pairs, 1, EmptyMap)

Last(x) == x[Len(x)]

\* keys and values that are non-empty and hold no double quote, and no value
\* that ends in ',' or '{' right before a key that starts with ':'
Repairable(pairs) ==
    /\ \A i \in 1..Len(pairs) :
         /\ pairs[i][1] # <<>> /\ ~Contains(pairs[i][1], DQ)
         /\ pairs[i][2] # <<>> /\ ~Contains(pairs[i][2], DQ)
    /\ \A i \in 1..(Len(pairs) - 1) :
         ~(Last(pairs[i][2]) \in {",", "{"} /\ pairs[i + 1][1][1] = ":")

\* C10 as stated: for every single-level object text with single-quoted keys
\* and string values, normalize_llm_json returns the mapping with the same
\* keys and values, the key 'id' renamed to '_id'.
C10_EveryQuotedObject ==
    n_pc = "done" => n_result.t = "dict" /\ n_result.m = Expected(n_pairs)

\* C10 amended: the same, for texts whose keys and values are non-empty,
\* hold no quote character, and have no value ending in ',' or '{' right
\* before a key starting with ':'.
C10_RepairableQuotedObject ==
    (n_pc = "done" /\ Repairable(n_pairs)) =>
        n_result.t = "dict" /\ n_result.m = Expected(n_pairs)

C10_Witness ==
    /\ n_pc = "done"
    /\ n_pairs = <<<<w_id, <<"b", ",">>>>, <<w_description, <<"a">>>>>>
    /\ n_result.t = "dict"
    /\ DOMAIN n_result.m = {w__id, w_description}

====
